---- MODULE Spec2Model ----
(***************************************************************************)
(* Model of main.py: the review-feed pipeline                              *)
(*   parse_args -> main -> load_csv_anywhere -> generate_reviews_xml       *)
(*              -> upload_to_gcs                                           *)
(* Python strings are TLA+ strings.  An optional value (an argparse        *)
(* argument that may be None, an environment variable that may be unset,   *)
(* a DataFrame cell that may be NaN) is a sequence of length 0 or 1.       *)
(***************************************************************************)
EXTENDS Integers, Sequences, FiniteSets, TLC

VARIABLES
    args,          \* argparse namespace: csv_source, gcs_bucket, n_per_product, output, gcs_dest
    environ,       \* os.environ: CSV_URL (optional)
    adc,           \* application default credentials are available to storage.Client()
    source_exists, \* the object / file / URL named by the source descriptor exists
    pc,            \* position of main()
    csv_source,    \* main's local csv_source
    df,            \* the DataFrame main holds
    feed,          \* generate_reviews_xml: the ElementTree under construction
    review_id,     \* generate_reviews_xml: the counter
    row,           \* generate_reviews_xml: index of the row df.iterrows() is at
    rep,           \* generate_reviews_xml: iterations of the inner range() done for this row
    disk,          \* the local file at args.output
    blob,          \* the object at gs://gcs_bucket/gcs_dest
    error,         \* the exception that ended the run
    exit_code,     \* the process's exit status (optional: empty while running)
    calls          \* the pipeline stages main has called, in call order

vars == <<args, environ, adc, source_exists, pc, csv_source, df, feed, review_id,
          row, rep, disk, blob, error, exit_code, calls>>

inputs == <<args, environ, adc, source_exists>>

builder == <<feed, review_id, row, rep>>

-----------------------------------------------------------------------------
(* Bounds of the model *)

MaxTail == 3

MaxRows == 2

MaxN == 2

MaxReviews == 4

MaxDrawReviews == 2

-----------------------------------------------------------------------------
(* Python values *)

None == <<>>

Some(v) == <<v>>

NaN == <<>>

Max(a, b) == IF a >= b THEN a ELSE b

\* python truthiness of an optional string: None and "" are falsy
Truthy(o) == o # None /\ o[1] # ""

CharAt(s, i) == SubSeq(s, i, i)

Whitespace == {" "}

RECURSIVE LStrip(_)
LStrip(s) ==
    IF Len(s) > 0 /\ CharAt(s, 1) \in Whitespace
    THEN LStrip(SubSeq(s, 2, Len(s)))
    ELSE s

RECURSIVE RStrip(_)
RStrip(s) ==
    IF Len(s) > 0 /\ CharAt(s, Len(s)) \in Whitespace
    THEN RStrip(SubSeq(s, 1, Len(s) - 1))
    ELSE s

\* str.strip()
Strip(s) == RStrip(LStrip(s))

\* str.startswith(p)
StartsWith(s, p) == Len(s) >= Len(p) /\ SubSeq(s, 1, Len(p)) = p

\* index of the first occurrence of the one-character string c in s, 0 if none
RECURSIVE FindFrom(_, _, _)
FindFrom(s, c, i) ==
    IF i > Len(s) THEN 0
    ELSE IF CharAt(s, i) = c THEN i
    ELSE FindFrom(s, c, i + 1)

\* str.partition(sep) for a one-character sep: <<head, sep, tail>>
Partition(s, sep) ==
    LET i == FindFrom(s, sep, 1) IN
    IF i = 0 THEN <<s, "", "">>
    ELSE <<SubSeq(s, 1, i - 1), sep, SubSeq(s, i + 1, Len(s))>>

\* str() of a non-negative int
RECURSIVE IntStr(_)
IntStr(n) ==
    IF n < 10 THEN CharAt("0123456789", n + 1)
    ELSE IntStr(n \div 10) \o CharAt("0123456789", (n % 10) + 1)

\* int() of a decimal string
RECURSIVE ParseInt(_)
ParseInt(s) ==
    IF Len(s) = 0 THEN 0
    ELSE ParseInt(SubSeq(s, 1, Len(s) - 1)) * 10
         + (FindFrom("0123456789", CharAt(s, Len(s)), 1) - 1)

\* str() of a DataFrame cell read with dtype=str: a missing cell is float NaN
StrCell(c) == IF c = NaN THEN "nan" ELSE c[1]

-----------------------------------------------------------------------------
(* Errors and process exit *)

\* where: the function that raised, as the traceback's innermost frame names it
NoError == [type |-> "", msg |-> "", where |-> ""]

Raise(t, m, f) == [type |-> t, msg |-> m, where |-> f]

Running == <<>>

\* argparse's parser.error(): usage message on stderr, status 2
ArgparseExit == 2

\* SystemExit(str) and an uncaught exception: message on stderr, status 1
FailureExit == 1

SuccessExit == 0

-----------------------------------------------------------------------------
(* Inputs *)

RECURSIVE Strings(_, _)
Strings(alphabet, n) ==
    IF n = 0 THEN {""}
    ELSE LET S == Strings(alphabet, n - 1) IN
         S \cup {s \o c : s \in S, c \in alphabet}

Tails == Strings({"b", "/"}, MaxTail)

GsSources == {"gs://" \o t : t \in Tails}

OtherSources == {"", " ", "http://h/f.csv", "https://h/f.csv", "f.csv", " f.csv "}

ArgSources == {None} \cup {Some(s) : s \in GsSources \cup OtherSources}

EnvValues == {None, Some(""), Some(" "), Some(" e.csv ")}

Buckets == {None, Some("bkt")}

DefaultOutput == "leela_reviews.xml"

DefaultDest == "Googlefinal/leela_reviews.xml"

\* parse_args: the namespaces argparse can hand to main, plus the one it refuses
Namespace(src, bkt, n) ==
    [csv_source |-> src, gcs_bucket |-> bkt, n_per_product |-> n,
     output |-> DefaultOutput, gcs_dest |-> DefaultDest]

\* DataFrames: a set of column names and a sequence of rows over these columns
RECURSIVE SeqsUpTo(_, _)
SeqsUpTo(S, n) ==
    IF n = 0 THEN {<<>>}
    ELSE LET P == SeqsUpTo(S, n - 1) IN
         P \cup {Append(p, x) : p \in {q \in P : Len(q) = n - 1}, x \in S}

Frames(colsets, cells, maxRows) ==
    UNION {
        {[columns |-> cs, rows |-> rs] :
            rs \in SeqsUpTo({r \in [cs -> UNION {cells[c] : c \in cs}] :
                                \A c \in cs : r[c] \in cells[c]}, maxRows)}
        : cs \in colsets}

AllColumns == {"id", "link", "title", "price"}

NoFrame == [columns |-> {}, rows |-> <<>>, loaded |-> FALSE]

NoFeed == [built |-> FALSE]

NoFile == [written |-> FALSE]

NoBlob == [uploaded |-> FALSE]

-----------------------------------------------------------------------------
(* parse_args and main *)

\* a variant that prefers the environment: csv_source = env or args.csv_source
EffectiveSourceEnvFirst(arg, env) ==
    IF env # None /\ Strip(env[1]) # "" THEN Strip(env[1])
    ELSE IF arg = None THEN "" ELSE arg[1]

\* main: csv_source = args.csv_source or os.environ.get("CSV_URL", "").strip()
EffectiveSource(arg, env) ==
    IF Truthy(arg) THEN arg[1]
    ELSE Strip(IF env = None THEN "" ELSE env[1])

Exit(e, code) ==
    /\ error' = e
    /\ exit_code' = Some(code)
    /\ pc' = "exit"

\* parse_args: --gcs-bucket is required=True
ParseArgs ==
    /\ pc = "parse_args"
    /\ IF args.gcs_bucket = None
       THEN Exit(Raise("ArgumentError",
                       "the following arguments are required: --gcs-bucket", "parse_args"),
                 ArgparseExit)
       ELSE pc' = "resolve" /\ UNCHANGED <<error, exit_code>>
    /\ UNCHANGED <<inputs, csv_source, df, builder, disk, blob, calls>>

\* main: the env fallback and the SystemExit
ResolveSource ==
    /\ pc = "resolve"
    /\ csv_source' = EffectiveSource(args.csv_source, environ.CSV_URL)
    /\ IF csv_source' = ""
       THEN Exit(Raise("SystemExit",
                       "ERROR: --csv-source not provided and CSV_URL env is empty.", "main"),
                 FailureExit)
       ELSE pc' = "load" /\ UNCHANGED <<error, exit_code>>
    /\ UNCHANGED <<inputs, df, builder, disk, blob, calls>>

-----------------------------------------------------------------------------
(* load_csv_anywhere *)

\* the exception load_csv_anywhere raises, NoError when it returns a DataFrame
LoadCsvAnywhere(src0, creds, exists) ==
    LET src == Strip(src0) IN
    IF src = ""
    THEN Raise("ValueError",
               "csv-source is empty. Provide a URL, local path, or gs:// path.",
               "load_csv_anywhere")
    ELSE IF StartsWith(src, "gs://")
    THEN IF ~creds
         THEN Raise("DefaultCredentialsError", "storage.Client(): no credentials",
                    "load_csv_anywhere")
         ELSE LET without == SubSeq(src, 6, Len(src))
                  parts == Partition(without, "/")
                  bucket_name == parts[1]
                  blob_path == parts[3]
              IN IF bucket_name = "" \/ blob_path = ""
                 THEN Raise("ValueError", "Invalid GCS path: " \o src, "load_csv_anywhere")
                 ELSE IF ~exists
                 THEN Raise("FileNotFoundError", "GCS object not found: " \o src,
                            "load_csv_anywhere")
                 ELSE NoError
    ELSE IF StartsWith(src, "http://") \/ StartsWith(src, "https://")
    THEN IF ~exists
         THEN Raise("HTTPError", "pd.read_csv: " \o src, "load_csv_anywhere")
         ELSE NoError
    ELSE IF ~exists
    THEN Raise("FileNotFoundError", "Local CSV not found: " \o src, "load_csv_anywhere")
    ELSE NoError

\* a variant of main that swallows the loader's exception and goes on
LoadSwallowing(frames) ==
    /\ pc = "load"
    /\ calls' = Append(calls, "load")
    /\ IF LoadCsvAnywhere(csv_source, adc, source_exists) = NoError
       THEN \E f \in frames : df' = f
       ELSE UNCHANGED df
    /\ pc' = "build"
    /\ UNCHANGED <<inputs, csv_source, builder, disk, blob, error, exit_code>>

\* main: df = load_csv_anywhere(csv_source); frames is what the source may hold
Load(frames) ==
    /\ pc = "load"
    /\ calls' = Append(calls, "load")
    /\ LET e == LoadCsvAnywhere(csv_source, adc, source_exists) IN
       IF e = NoError
       THEN /\ \E f \in frames : df' = f
            /\ pc' = "build"
            /\ UNCHANGED <<error, exit_code>>
       ELSE /\ Exit(e, FailureExit)
            /\ UNCHANGED df
    /\ UNCHANGED <<inputs, csv_source, builder, disk, blob>>

-----------------------------------------------------------------------------
(* generate_reviews_xml *)

titles ==
    <<"Absolutely Stunning", "Perfect in Every Way", "Exceeded My Expectations",
      "Brilliant Sparkle", "Impeccable Quality">>

\* the five bodies, with the source's typographic apostrophes and dashes in ASCII
templates ==
    <<"I'm so impressed with my diamond! The cut is flawless and shipping was super fast.",
      "What a beautiful diamond - its brilliance really caught everyone's eye at my event.",
      "Great experience from start to finish. The stone arrived exactly as described.",
      "Fantastic service and the stone looks even better in person. Highly recommend!",
      "Very happy with my purchase - exceptional quality and clear, bright sparkle.">>

\* random.choice(seq): any element
Choice(seq) == {seq[i] : i \in DOMAIN seq}

\* a variant with a lower bound one too low: random.randint(3, 5)
RatingChoicesWide == 3..5

\* random.randint(4, 5): any integer of the closed range
RatingChoices == 4..5

\* fake.name() and fake.date_time_between("-90d", "now", utc).isoformat(), as tokens
FakeNames == {"<fake.name>"}

FakeTimestamps == {"<-90d..now>+00:00"}

\* every outcome of the random calls of one inner-loop iteration
AllDraws ==
    [name : FakeNames, timestamp : FakeTimestamps, title : Choice(titles),
     content : Choice(templates), rating : RatingChoices]

\* the outcomes with the first headline and the first body: both ratings
FewDraws == {d \in AllDraws : d.title = titles[1] /\ d.content = templates[1]}

required_cols == {"id", "link", "title"}

\* missing = [c for c in required_cols if c not in df.columns]
Missing(frame) == {c \in required_cols : c \notin frame.columns}

\* a variant that clamps to one: range(max(1, int(n_per_product)))
RepsAtLeastOne(n) == Max(1, n)

\* range(max(0, int(n_per_product))): the number of iterations
Reps(n) == Max(0, n)

\* the skeleton: feed, version, publisher, reviews
Skeleton ==
    [built |-> TRUE,
     schema |-> "http://www.google.com/shopping/reviews/schema/product/2.3/product_reviews.xsd",
     version |-> "2.3",
     publisher |-> [name |-> "Leela Diamonds Reviews",
                    favicon |-> "https://leeladiamond.com/favicon.png"],
     reviews |-> <<>>]

\* pid = str(row["id"])
Pid(r) == StrCell(r["id"])

\* url = str(row["link"])
Url(r) == StrCell(r["link"])

\* name = str(row.get("title", pid))
ProductName(r) == IF "title" \in DOMAIN r THEN StrCell(r["title"]) ELSE Pid(r)

\* one <review> element
Review(r, id, d) ==
    [review_id |-> IntStr(id),
     reviewer |-> [name |-> d.name],
     review_timestamp |-> d.timestamp,
     title |-> d.title,
     content |-> d.content,
     review_url |-> [type |-> "singleton", text |-> Url(r)],
     ratings |-> [overall |-> [min |-> "1", max |-> "5", text |-> IntStr(d.rating)]],
     product |-> [gtin |-> Pid(r) \o "CA",
                  mpn |-> Pid(r),
                  brand |-> "Leela Diamonds",
                  product_name |-> ProductName(r),
                  product_url |-> Url(r)]]

\* a variant that forgets the increment
NextReviewIdStuck(id) == id

\* the counter after one review
NextReviewId(id) == id + 1

\* tree.write(output_path, encoding="utf-8", xml_declaration=True)
Serialize(tree) ==
    [written |-> TRUE, xml_declaration |-> TRUE, encoding |-> "utf-8", root |-> tree]

\* the call, the skeleton, review_id = 1 and the required-column check
BuildBegin ==
    /\ pc = "build"
    /\ calls' = Append(calls, "build")
    /\ feed' = Skeleton
    /\ review_id' = 1
    /\ row' = 1
    /\ rep' = 0
    /\ IF Missing(df) # {}
       THEN Exit(Raise("ValueError", "CSV missing required columns", "generate_reviews_xml"),
                 FailureExit)
       ELSE pc' = "rows" /\ UNCHANGED <<error, exit_code>>
    /\ UNCHANGED <<inputs, csv_source, df, disk, blob>>

\* one iteration of the inner loop; draws is what the random calls may return
EmitReview(draws) ==
    /\ pc = "rows"
    /\ row <= Len(df.rows)
    /\ rep < Reps(args.n_per_product)
    /\ \E d \in draws :
         feed' = [feed EXCEPT !.reviews = Append(@, Review(df.rows[row], review_id, d))]
    /\ review_id' = NextReviewId(review_id)
    /\ rep' = rep + 1
    /\ UNCHANGED <<inputs, pc, csv_source, df, row, disk, blob, error, exit_code, calls>>

\* the inner loop is exhausted: df.iterrows() moves to the next row
NextRow ==
    /\ pc = "rows"
    /\ row <= Len(df.rows)
    /\ rep >= Reps(args.n_per_product)
    /\ row' = row + 1
    /\ rep' = 0
    /\ UNCHANGED <<inputs, pc, csv_source, df, feed, review_id, disk, blob, error,
                   exit_code, calls>>

\* the rows are exhausted: write the file and return to main
WriteFile ==
    /\ pc = "rows"
    /\ row > Len(df.rows)
    /\ disk' = Serialize(feed)
    /\ pc' = "upload"
    /\ UNCHANGED <<inputs, csv_source, df, builder, blob, error, exit_code, calls>>

-----------------------------------------------------------------------------
(* upload_to_gcs *)

\* a variant that removes the local file when the upload fails
UploadRemovingFile ==
    /\ pc = "upload"
    /\ calls' = Append(calls, "upload")
    /\ \E delivered \in BOOLEAN :
         IF adc /\ delivered
         THEN /\ blob' = [uploaded |-> TRUE,
                          bucket |-> args.gcs_bucket[1],
                          name |-> args.gcs_dest,
                          content_type |-> "application/xml",
                          cache_control |-> "public, max-age=3600",
                          data |-> disk]
              /\ pc' = "done"
              /\ exit_code' = Some(SuccessExit)
              /\ UNCHANGED <<error, disk>>
         ELSE /\ Exit(Raise("GoogleCloudError", "upload failed", "upload_to_gcs"),
                      FailureExit)
              /\ disk' = NoFile
              /\ UNCHANGED blob
    /\ UNCHANGED <<inputs, csv_source, df, builder>>

\* storage.Client() needs the credentials; upload_from_filename may fail in transport
Upload ==
    /\ pc = "upload"
    /\ calls' = Append(calls, "upload")
    /\ IF ~adc
       THEN /\ Exit(Raise("DefaultCredentialsError", "storage.Client(): no credentials",
                          "upload_to_gcs"),
                    FailureExit)
            /\ UNCHANGED blob
       ELSE \E delivered \in BOOLEAN :
              IF delivered
              THEN /\ blob' = [uploaded |-> TRUE,
                               bucket |-> args.gcs_bucket[1],
                               name |-> args.gcs_dest,
                               content_type |-> "application/xml",
                               cache_control |-> "public, max-age=3600",
                               data |-> disk]
                   /\ pc' = "done"
                   /\ exit_code' = Some(SuccessExit)
                   /\ UNCHANGED error
              ELSE /\ Exit(Raise("GoogleCloudError", "upload_from_filename failed",
                                 "upload_to_gcs"),
                           FailureExit)
                   /\ UNCHANGED blob
    /\ UNCHANGED <<inputs, csv_source, df, builder, disk>>

-----------------------------------------------------------------------------
(* The pipeline: one process run from the command line *)

PipeN == 0..1

PipeCells ==
    [c \in AllColumns |->
        IF c = "id" THEN {Some("A")}
        ELSE IF c = "link" THEN {Some("U")}
        ELSE IF c = "title" THEN {Some("T")}
        ELSE {Some("9")}]

PipeFrames == Frames({AllColumns, {"link", "title"}}, PipeCells, 1)

Init ==
    /\ args \in {Namespace(s, b, n) : s \in ArgSources, b \in Buckets, n \in PipeN}
    /\ environ \in [CSV_URL : EnvValues]
    /\ adc \in BOOLEAN
    /\ source_exists \in BOOLEAN
    /\ pc = "parse_args"
    /\ csv_source = ""
    /\ df = NoFrame
    /\ feed = NoFeed
    /\ review_id = 0
    /\ row = 0
    /\ rep = 0
    /\ disk = NoFile
    /\ blob = NoBlob
    /\ error = NoError
    /\ exit_code = Running
    /\ calls = <<>>

Next ==
    \/ ParseArgs
    \/ ResolveSource
    \/ Load(PipeFrames)
    \/ BuildBegin
    \/ EmitReview(FewDraws)
    \/ NextRow
    \/ WriteFile
    \/ Upload

Spec == Init /\ [][Next]_vars

-----------------------------------------------------------------------------
(* The builder alone: one call of generate_reviews_xml(df, output, n) *)

BuildCells ==
    [c \in AllColumns |->
        IF c = "id" THEN {NaN, Some("A"), Some("B")}
        ELSE IF c = "link" THEN {NaN, Some("U"), Some("V")}
        ELSE IF c = "title" THEN {NaN, Some("T")}
        ELSE {Some("9")}]

BuildFrames == Frames(SUBSET required_cols, BuildCells, MaxRows)

AtBuilder(frames, counts, cap) ==
    /\ args \in {Namespace(Some("f.csv"), Some("bkt"), n) : n \in counts}
    /\ df \in {f \in frames : Len(f.rows) * Max(0, args.n_per_product) <= cap}
    /\ environ = [CSV_URL |-> None]
    /\ adc = TRUE
    /\ source_exists = TRUE
    /\ pc = "build"
    /\ csv_source = "f.csv"
    /\ feed = NoFeed
    /\ review_id = 0
    /\ row = 0
    /\ rep = 0
    /\ disk = NoFile
    /\ blob = NoBlob
    /\ error = NoError
    /\ exit_code = Running
    /\ calls = <<"load">>

InitBuild == AtBuilder(BuildFrames, (-1)..MaxN, MaxReviews)

NextBuild ==
    \/ BuildBegin
    \/ EmitReview(FewDraws)
    \/ NextRow
    \/ WriteFile

SpecBuild == InitBuild /\ [][NextBuild]_vars

-----------------------------------------------------------------------------
(* The builder under every outcome of the random calls *)

DrawFrames == Frames({required_cols}, PipeCells, MaxDrawReviews)

InitDraw == AtBuilder(DrawFrames, 0..MaxDrawReviews, MaxDrawReviews)

NextDraw ==
    \/ BuildBegin
    \/ EmitReview(AllDraws)
    \/ NextRow
    \/ WriteFile

SpecDraw == InitDraw /\ [][NextDraw]_vars

-----------------------------------------------------------------------------
(* Properties *)

\* the reviews emitted so far
Emitted == IF feed.built THEN feed.reviews ELSE <<>>

\* the repeat count of this run
N == Reps(args.n_per_product)

\* the record whose inner loop emitted the review at position p (N > 0 there)
Owner(p) == df.rows[((p - 1) \div N) + 1]

\* generate_reviews_xml has returned to main
Returned == pc \in {"upload", "done"} \/ (pc = "exit" /\ error.where = "upload_to_gcs")

Stages == <<"load", "build", "upload">>

\* C1: when the builder returns, the document holds exactly N x |records| reviews,
\* the review_id read at position p is p (1, 2, ... with no gap and no duplicate), the
\* reviews of record k are those at positions (k-1)*N+1 .. k*N, and this is the
\* document written; while it runs, the ids emitted so far are 1, 2, ... in order.
C1_ReviewIds ==
    /\ \A p \in 1..Len(Emitted) :
         /\ Emitted[p].review_id = IntStr(p)
         /\ ParseInt(Emitted[p].review_id) = p
    /\ Returned =>
         /\ Len(Emitted) = N * Len(df.rows)
         /\ \A k \in 1..Len(df.rows) : \A j \in 1..N :
              LET v == Emitted[(k - 1) * N + j] IN
              /\ v.product.mpn = Pid(df.rows[k])
              /\ v.product.product_url = Url(df.rows[k])
              /\ ParseInt(v.review_id) \in ((k - 1) * N + 1)..(k * N)
         /\ disk.written /\ disk.root.reviews = Emitted

\* two records with different ids, N = 2: four reviews, written
C1_Witness ==
    /\ pc = "upload"
    /\ Len(df.rows) = 2
    /\ df.rows[1]["id"] = Some("A") /\ df.rows[2]["id"] = Some("B")
    /\ args.n_per_product = 2
    /\ Len(Emitted) = 4
    /\ Emitted[3].review_id = "3" /\ Emitted[3].product.mpn = "B"

\* a record lacks id or link: the column is absent or the record's cell is empty
BadRecord(r) ==
    \/ "id" \notin DOMAIN r
    \/ "link" \notin DOMAIN r
    \/ r["id"] = NaN
    \/ r["link"] = NaN

HasBadRecord == \E k \in 1..Len(df.rows) : BadRecord(df.rows[k])

\* C2: if any record is missing id or link (column absent or value empty), the build
\* fails with the missing-field error, no review is emitted for any record and no
\* file is written.
C2_MissingFieldFails ==
    HasBadRecord =>
        /\ Emitted = <<>>
        /\ disk = NoFile
        /\ pc \notin {"build", "rows"} =>
             /\ pc = "exit"
             /\ error.where = "generate_reviews_xml"
             /\ error.type = "ValueError"

\* the record carries no title: the column is absent or the record's cell is empty
TitleAbsent(r) == "title" \notin DOMAIN r \/ r["title"] = NaN

\* C3: a record's reviews carry its id as product_name when its title is absent and
\* its title otherwise, and a feed without the title column is not an error.
C3_TitleFallback ==
    /\ ({"id", "link"} \subseteq df.columns /\ "title" \notin df.columns /\ pc # "build")
         => error = NoError
    /\ \A p \in 1..Len(Emitted) :
         Emitted[p].product.product_name =
            IF TitleAbsent(Owner(p)) THEN Pid(Owner(p)) ELSE Owner(p)["title"][1]

\* C4: every review carries the identifiers of the record that owns it: gtin is the
\* record's id followed by "CA", mpn is the record's id, brand is "Leela Diamonds",
\* review_url and product_url are the record's link.
C4_OwnerIdentifiers ==
    \A p \in 1..Len(Emitted) :
        LET r == Owner(p)
            v == Emitted[p]
        IN /\ r["id"] # NaN
           /\ r["link"] # NaN
           /\ v.product.gtin = r["id"][1] \o "CA"
           /\ v.product.mpn = r["id"][1]
           /\ v.product.brand = "Leela Diamonds"
           /\ v.review_url.text = r["link"][1]
           /\ v.product.product_url = r["link"][1]

\* C5: under every outcome of the random calls, each review's rating is 4 or 5, within
\* the declared min and max, its title is one of the five headlines and its content
\* one of the five bodies, in the tree and in the file written from it.
C5_RandomFields ==
    /\ Len(titles) = 5 /\ Len(templates) = 5
    /\ \A p \in 1..Len(Emitted) :
         LET v == Emitted[p]
             o == v.ratings.overall
         IN /\ o.text \in {"4", "5"}
            /\ ParseInt(o.text) >= 4
            /\ ParseInt(o.min) <= ParseInt(o.text) /\ ParseInt(o.text) <= ParseInt(o.max)
            /\ \E i \in 1..5 : v.title = titles[i]
            /\ \E i \in 1..5 : v.content = templates[i]
    /\ disk.written => disk.root.reviews = Emitted

\* a written document with both ratings and the last headline and body of the pools
C5_Witness ==
    /\ pc = "upload"
    /\ disk.written
    /\ Len(Emitted) = 2
    /\ Emitted[1].ratings.overall.text = "4"
    /\ Emitted[2].ratings.overall.text = "5"
    /\ Emitted[1].title = titles[5]
    /\ Emitted[2].content = templates[5]

\* C6: the stages are called in the order load, build, upload, each at most once; the
\* builder is called only with the frame the loader returned, the upload only after
\* the builder has finished every row and written the file, and a run the loader or
\* the builder ended with an exception never uploads.
C6_StageOrder ==
    /\ \E n \in 0..Len(Stages) : calls = SubSeq(Stages, 1, n)
    /\ Len(calls) >= 2 => df # NoFrame
    /\ Len(calls) >= 3 =>
         /\ feed.built
         /\ row > Len(df.rows)
         /\ Len(Emitted) = N * Len(df.rows)
         /\ disk = Serialize(feed)
    /\ error.where \in {"load_csv_anywhere", "generate_reviews_xml"} =>
         /\ pc = "exit"
         /\ Len(calls) < 3
         /\ blob = NoBlob
    /\ blob # NoBlob => calls = Stages /\ blob.data = disk

\* a completed run that uploaded a document holding a review
C6_Witness ==
    /\ pc = "done"
    /\ calls = Stages
    /\ blob # NoBlob
    /\ Len(blob.data.root.reviews) = 1

\* C7: when the upload fails the run ends with a non-zero status after a single
\* upload call, nothing is uploaded, and the local file still holds the document
\* the builder wrote.
C7_UploadFailureKeepsFile ==
    error.where = "upload_to_gcs" =>
        /\ pc = "exit"
        /\ exit_code # Running /\ exit_code[1] # 0
        /\ calls = Stages
        /\ blob = NoBlob
        /\ disk.written
        /\ disk = Serialize(feed)
        /\ Len(disk.root.reviews) = N * Len(df.rows)

\* a transport failure of the upload of a document holding a review
C7_Witness ==
    /\ error.where = "upload_to_gcs"
    /\ error.type = "GoogleCloudError"
    /\ disk.written
    /\ Len(disk.root.reviews) = 1

\* the stripped descriptor is a gs:// path
IsGs(src) == StartsWith(src, "gs://")

IsHttp(src) == StartsWith(src, "http://") \/ StartsWith(src, "https://")

\* a gs:// descriptor lacking the bucket or the object component
LacksComponent(src) ==
    LET parts == Partition(SubSeq(src, 6, Len(src)), "/") IN
    parts[1] = "" \/ parts[3] = ""

RejectedWith(t) ==
    /\ pc = "exit"
    /\ error.where = "load_csv_anywhere"
    /\ error.type = t
    /\ df = NoFrame
    /\ calls = <<"load">>
    /\ disk = NoFile
    /\ blob = NoBlob

\* C8: once load_csv_anywhere has been called, a gs:// descriptor lacking a bucket or
\* an object has failed with the invalid-source error (ValueError), a cloud object or
\* local path that does not exist with the source-not-found error
\* (FileNotFoundError), and in these cases no frame was returned and neither the
\* builder nor the publisher ran.
C8_BadSourceClassified ==
    LET src == Strip(csv_source) IN
    (Len(calls) >= 1 /\ src # "") =>
        /\ (IsGs(src) /\ LacksComponent(src)) => RejectedWith("ValueError")
        /\ (IsGs(src) /\ ~LacksComponent(src) /\ ~source_exists)
              => RejectedWith("FileNotFoundError")
        /\ (~IsGs(src) /\ ~IsHttp(src) /\ ~source_exists)
              => RejectedWith("FileNotFoundError")

EarlyExit ==
    /\ pc = "exit"
    /\ exit_code # Running /\ exit_code[1] # 0
    /\ error.msg # ""
    /\ error.where \in {"parse_args", "main"}
    /\ calls = <<>>
    /\ df = NoFrame
    /\ disk = NoFile
    /\ blob = NoBlob

EnvBlank == environ.CSV_URL = None \/ Strip(environ.CSV_URL[1]) = ""

\* C9 as claimed: without --gcs-bucket, or without --csv-source and with CSV_URL
\* unset, empty or blank, the process exits non-zero with a message before any stage
\* is called; a --csv-source that is given is the source used.
C9_GivenSourceWins ==
    /\ (args.gcs_bucket = None /\ pc # "parse_args") => EarlyExit
    /\ (args.csv_source = None /\ EnvBlank /\ pc \notin {"parse_args", "resolve"})
          => EarlyExit
    /\ (args.csv_source # None /\ args.gcs_bucket # None
          /\ pc \notin {"parse_args", "resolve"})
          => csv_source = args.csv_source[1]

\* C9 as amended: the descriptor is also missing when --csv-source is given as the
\* empty string, which falls back to CSV_URL like an absent one; a --csv-source
\* given with a non-empty value is the source used, whatever CSV_URL holds.
C9_NonEmptySourceWins ==
    /\ (args.gcs_bucket = None /\ pc # "parse_args") => EarlyExit
    /\ (~Truthy(args.csv_source) /\ EnvBlank /\ pc \notin {"parse_args", "resolve"})
          => EarlyExit
    /\ (args.gcs_bucket # None /\ pc \notin {"parse_args", "resolve"}) =>
          csv_source = IF Truthy(args.csv_source) THEN args.csv_source[1]
                       ELSE IF environ.CSV_URL = None THEN ""
                       ELSE Strip(environ.CSV_URL[1])

\* both a --csv-source and a CSV_URL are set, and the argument is the source loaded
C9_Witness ==
    /\ args.csv_source = Some("f.csv")
    /\ environ.CSV_URL = Some(" e.csv ")
    /\ csv_source = "f.csv"
    /\ "load" \in {calls[i] : i \in 1..Len(calls)}

\* C10: for n_per_product <= 0 and a frame with the required columns the build raises
\* nothing, and the document it writes has version, publisher and an empty reviews
\* node.
C10_NoReviews ==
    (args.n_per_product <= 0 /\ Missing(df) = {} /\ pc # "build") =>
        /\ error = NoError
        /\ pc \in {"rows", "upload"}
        /\ feed.built
        /\ feed.reviews = <<>>
        /\ feed.version = "2.3"
        /\ feed.publisher.name = "Leela Diamonds Reviews"
        /\ pc = "upload" =>
             /\ disk.written
             /\ disk.root = feed
             /\ disk.root.reviews = <<>>

\* a negative count over two records: the document is written without reviews
C10_Witness ==
    /\ pc = "upload"
    /\ args.n_per_product = -1
    /\ Len(df.rows) = 2
    /\ disk.written
    /\ disk.root.reviews = <<>>

====
